---- MODULE Spec2Model ----
(***************************************************************************)
(* A model of the LoRA tuner of swift/tuners/lora.py: the adapter layer    *)
(* variants (Linear, MergedLinear, Embedding, Conv2d) with their           *)
(* merge/unmerge state machine, the dispatching wrapper that the patch     *)
(* engine installs on a node, the module locator and the state-dict        *)
(* filter.                                                                 *)
(*                                                                         *)
(* Tensors are two-dimensional integer matrices (a sequence of rows).      *)
(* Floating point is idealised as exact integer arithmetic: lora_alpha is  *)
(* drawn from the multiples of r, so that scaling = lora_alpha / r is an   *)
(* integer.  Shapes are kept, and every torch operation that checks shapes *)
(* (matmul, in-place add, masked assignment, reshape) fails here exactly   *)
(* when the shapes make it fail there.                                     *)
(***************************************************************************)
EXTENDS Integers, Sequences, FiniteSets, TLC

\* -------------------------------------------------------------- bounds
\* Largest in_features / out_features / num_embeddings of a directly
\* constructed layer.
MaxDim == 2
\* Largest rank r of an adapter (r = 0 is the zero-rank adapter).
MaxRank == 1
\* Largest number of attached adapters that later patch calls replace.
MaxReplaced == 1

\* -------------------------------------------------------------- tensors
Rows(M) == Len(M)
Cols(M) == Len(M[1])
Numel(M) == Rows(M) * Cols(M)
Mat(m, n, f(_, _)) == [i \in 1..m |-> [j \in 1..n |-> f(i, j)]]
Zeros(m, n) == Mat(m, n, LAMBDA i, j: 0)

RECURSIVE SumSeq(_)
SumSeq(s) == IF s = <<>> THEN 0 ELSE Head(s) + SumSeq(Tail(s))

\* w.T
Tr(M) == Mat(Cols(M), Rows(M), LAMBDA i, j: M[j][i])
\* w * c
Scale(M, c) == Mat(Rows(M), Cols(M), LAMBDA i, j: M[i][j] * c)

\* The outcome of a tensor operation: a value, or the RuntimeError torch
\* raises on a shape mismatch.
Ok(v) == [ok |-> TRUE, val |-> v]
ShapeErr == [ok |-> FALSE, val |-> <<>>]

\* X @ Y
MatMul(X, Y) ==
    IF Cols(X) # Rows(Y) THEN ShapeErr
    ELSE Ok(Mat(Rows(X), Cols(Y),
                LAMBDA i, j: SumSeq([k \in 1..Cols(X) |-> X[i][k] * Y[k][j]])))

\* Whether D broadcasts to the shape of W without changing that shape (what
\* an in-place  W += D  and a masked assignment require).
BroadcastsTo(D, rows, cols) ==
    /\ Rows(D) \in {rows, 1}
    /\ Cols(D) \in {cols, 1}
BIdx(n, i) == IF n = 1 THEN 1 ELSE i

\* W.data += sign * D   (in place, D broadcast to W)
AddInPlace(W, D, sign) ==
    IF ~BroadcastsTo(D, Rows(W), Cols(W)) THEN ShapeErr
    ELSE Ok(Mat(Rows(W), Cols(W),
                LAMBDA i, j: W[i][j] + sign * D[BIdx(Rows(D), i)][BIdx(Cols(D), j)]))

\* M.view(rows, cols) / M.reshape(rows, cols): the same row-major data.
Reshape(M, rows, cols) ==
    IF rows * cols # Numel(M) \/ rows < 1 \/ cols < 1 THEN ShapeErr
    ELSE Ok(Mat(rows, cols,
                LAMBDA i, j:
                    LET k == (i - 1) * cols + j - 1
                    IN  M[(k \div Cols(M)) + 1][(k % Cols(M)) + 1]))

\* M.reshape(-1, cols)
ReshapeCols(M, cols) ==
    IF cols < 1 \/ Numel(M) % cols # 0 THEN ShapeErr
    ELSE Reshape(M, Numel(M) \div cols, cols)

\* F.linear(x, Wt, bias) = x @ Wt.T + bias ; bias is <<>> when the layer has
\* none, else a 1 x out row.
FLinear(x, Wt, b) ==
    LET plus(y) == IF ~y.ok THEN ShapeErr
                   ELSE IF b = <<>> THEN y
                   ELSE AddInPlace(y.val, b, 1)
    IN  plus(MatMul(x, Tr(Wt)))

\* ------------------------------------------------------- parameter values
\* Tensor contents.  The base weight and bias are whatever the host model
\* holds; the low-rank factors are those reset_parameters leaves (seed 0: one
\* factor is zero) or those left by earlier training or by loading a
\* checkpoint (seed > 0).  The values are generic: B @ A is not symmetric and
\* differs from its own reshapes.
BaseWeight(m, n) == Mat(m, n, LAMBDA i, j: 10 * i + j)
BaseBias(n) == Mat(1, n, LAMBDA i, j: 100 + j)
FactorA(seed, m, n) == Mat(m, n, LAMBDA i, j: seed + i + 2 * j)
FactorB(seed, m, n) == Mat(m, n, LAMBDA i, j: IF seed = 0 THEN 0 ELSE seed + i * i + j - 1)
\* Embedding.reset_parameters zeroes lora_A and draws lora_B.
EmbFactorA(seed, m, n) == Mat(m, n, LAMBDA i, j: IF seed = 0 THEN 0 ELSE seed + i + 2 * j)
EmbFactorB(seed, m, n) == Mat(m, n, LAMBDA i, j: seed + i * i + j)

\* ------------------------------------------------------- adapter layers
Variants == {"Linear", "MergedLinear", "Embedding", "Conv2d"}

\* any(enable_lora), sum(enable_lora)
AnyOf(mask) == \E i \in 1..Len(mask): mask[i]
SumOf(mask) == Cardinality({i \in 1..Len(mask): mask[i]})

\* self.scaling = self.lora_alpha / self.r
Scaling(lora_alpha, r) == lora_alpha \div r

\* The fields an adapter layer's constructor leaves.  cfg carries the
\* constructor arguments; inF/outF are in_features/out_features
\* (num_embeddings/embedding_dim, in_channels/out_channels).  Conv2d layers
\* are modelled with kernel_size = 1.
NewLayer(variant, name, cfg, inF, outF, seed) ==
    LET g == SumOf(cfg.enable_lora)
        hasLora == IF variant = "MergedLinear"
                   THEN cfg.r > 0 /\ AnyOf(cfg.enable_lora)
                   ELSE cfg.r > 0
        A == IF ~hasLora THEN <<>>
             ELSE IF variant = "Embedding" THEN EmbFactorA(seed, cfg.r, inF)
             ELSE IF variant = "MergedLinear" THEN FactorA(seed, cfg.r * g, inF)
             ELSE FactorA(seed, cfg.r, inF)
        B == IF ~hasLora THEN <<>>
             ELSE IF variant = "Embedding" THEN EmbFactorB(seed, outF, cfg.r)
             ELSE IF variant = "MergedLinear"
                  THEN FactorB(seed, (outF \div Len(cfg.enable_lora)) * g, cfg.r)
             ELSE FactorB(seed, outF, cfg.r)
    IN  [ variant        |-> variant,
          name           |-> name,
          r              |-> cfg.r,
          scaling        |-> IF hasLora THEN Scaling(cfg.lora_alpha, cfg.r) ELSE 0,
          hasLora        |-> hasLora,
          lora_A         |-> A,
          lora_B         |-> B,
          \* lora_dropout is an nn.Dropout submodule iff lora_dropout > 0
          dropout        |-> IF variant = "Embedding" THEN FALSE ELSE cfg.dropout,
          merged         |-> FALSE,
          merge_weights  |-> cfg.merge_weights,
          fan_in_fan_out |-> IF variant \in {"Linear", "MergedLinear"}
                             THEN cfg.fan_in_fan_out ELSE FALSE,
          enable_lora    |-> IF variant = "MergedLinear" THEN cfg.enable_lora ELSE <<>>,
          out_features   |-> outF,
          activated      |-> TRUE,
          training       |-> TRUE,
          loraGrad       |-> TRUE ]

\* def T(w): return w.T if self.fan_in_fan_out else w
T(l, w) == IF l.fan_in_fan_out THEN Tr(w) ELSE w

\* T(self.lora_B @ self.lora_A) * self.scaling
LinearDelta(l) ==
    IF ~l.hasLora THEN ShapeErr
    ELSE LET scaled(ba) == IF ~ba.ok THEN ShapeErr ELSE Ok(Scale(T(l, ba.val), l.scaling))
         IN  scaled(MatMul(l.lora_B, l.lora_A))

\* (self.lora_B @ self.lora_A).T * self.scaling      (Embedding.train)
EmbeddingDelta(l) ==
    IF ~l.hasLora THEN ShapeErr
    ELSE LET scaled(ba) == IF ~ba.ok THEN ShapeErr ELSE Ok(Scale(Tr(ba.val), l.scaling))
         IN  scaled(MatMul(l.lora_B, l.lora_A))

\* (self.lora_B @ self.lora_A) * self.scaling        (Embedding.eval)
EmbeddingEvalDelta(l) ==
    IF ~l.hasLora THEN ShapeErr
    ELSE LET scaled(ba) == IF ~ba.ok THEN ShapeErr ELSE Ok(Scale(ba.val, l.scaling))
         IN  scaled(MatMul(l.lora_B, l.lora_A))

\* (self.lora_B @ self.lora_A).view(self.weight.shape) * self.scaling
Conv2dDelta(l, w) ==
    IF ~l.hasLora THEN ShapeErr
    ELSE LET scaled(v) == IF ~v.ok THEN ShapeErr ELSE Ok(Scale(v.val, l.scaling))
             view(ba) == IF ~ba.ok THEN ShapeErr
                         ELSE scaled(Reshape(ba.val, Rows(w), Cols(w)))
         IN  view(MatMul(l.lora_B, l.lora_A))

\* self.lora_ind: output channel c belongs to group ceil(c / (out / len)).
LoraInd(l) ==
    [c \in 1..l.out_features |->
        l.enable_lora[((c - 1) \div (l.out_features \div Len(l.enable_lora))) + 1]]
\* out_features // len(enable_lora) * sum(enable_lora)
SelWidth(l) == (l.out_features \div Len(l.enable_lora)) * SumOf(l.enable_lora)

\* A zero_pad that fills the leading channels instead of the masked ones.
zero_pad_leading(l, x) ==
    LET assign(v) ==
            IF ~v.ok THEN ShapeErr
            ELSE IF ~BroadcastsTo(v.val, Rows(x), SelWidth(l)) THEN ShapeErr
            ELSE Ok(Mat(Rows(x), l.out_features,
                        LAMBDA i, c: IF c <= SelWidth(l)
                                     THEN v.val[BIdx(Rows(v.val), i)][c]
                                     ELSE 0))
    IN  assign(ReshapeCols(x, SelWidth(l)))

\* MergedLinear.zero_pad
zero_pad(l, x) ==
    LET assign(ind, v) ==
            IF ~v.ok THEN ShapeErr
            \* result[:, self.lora_ind] = v    (v broadcast to Rows(x) rows)
            ELSE IF ~BroadcastsTo(v.val, Rows(x), SelWidth(l)) THEN ShapeErr
            ELSE Ok(Mat(Rows(x), l.out_features,
                        LAMBDA i, c: IF ind[c]
                                     THEN v.val[BIdx(Rows(v.val), i)]
                                               [Cardinality({k \in 1..c: ind[k]})]
                                     ELSE 0))
    IN  assign(LoraInd(l), ReshapeCols(x, SelWidth(l)))

\* F.conv1d(X, lora_B.unsqueeze(-1), groups=sum(enable_lora)) for X of shape
\* (r * groups, L): output channel o reads the r input channels of its group.
GroupedConv1d(l, X) ==
    LET g == SumOf(l.enable_lora)
        per == Rows(l.lora_B) \div g
        grp(o) == ((o - 1) \div per) + 1
    IN  IF Rows(X) # l.r * g THEN ShapeErr
        ELSE Ok(Mat(Rows(l.lora_B), Cols(X),
                    LAMBDA o, i:
                        SumSeq([k \in 1..l.r |->
                                   l.lora_B[o][k] * X[(grp(o) - 1) * l.r + k][i]])))

\* self.zero_pad(T(delta_w * self.scaling))
MergedLinearDelta(l) ==
    IF ~l.hasLora THEN ShapeErr
    ELSE LET pad(delta_w) == IF ~delta_w.ok THEN ShapeErr
                             ELSE zero_pad(l, T(l, Scale(delta_w.val, l.scaling)))
         IN  pad(GroupedConv1d(l, l.lora_A))

\* ------------------------------------------------ train() / eval()
\* The outcome of a method call: st is "ok" or the exception raised; l and w
\* are the layer and the weight tensor as the call leaves them (an exception
\* keeps what was assigned before it).
Outcome(st, l, w) == [st |-> st, l |-> l, w |-> w]

\* Faulty variant: the merge marks the layer merged without adding the delta.
MergeIntoForgotten(w, delta) == Ok(w)
\* Faulty variant: the adapter folds into a private copy of the weight, so
\* the tensor the node holds stays as it was.
MergeIntoCopy(w, delta) == IF BroadcastsTo(delta, Rows(w), Cols(w)) THEN Ok(w) ELSE ShapeErr
\* self.weight.data += delta     (merge)
MergeInto(w, delta) == AddInPlace(w, delta, 1)
\* Faulty variant: the unmerge adds the delta instead of subtracting it.
UnmergeFromAdds(w, delta) == AddInPlace(w, delta, 1)
\* self.weight.data -= delta     (unmerge)
UnmergeFrom(w, delta) == AddInPlace(w, delta, -1)

\* if <guard>: self.weight.data (+|-)= <delta> ; then self.merged = <flag>
FoldStep(l, w, guard, delta, merging) ==
    IF ~guard THEN Outcome("ok", [l EXCEPT !.merged = merging], w)
    ELSE IF ~delta.ok THEN Outcome("RuntimeError", l, w)
    ELSE LET done(nw) == IF ~nw.ok THEN Outcome("RuntimeError", l, w)
                         ELSE Outcome("ok", [l EXCEPT !.merged = merging], nw.val)
         IN  done(IF merging THEN MergeInto(w, delta.val)
                  ELSE UnmergeFrom(w, delta.val))

\* Faulty variant: train(False) folds without looking at the merged flag.
TrainBodyUnguarded(l, w, mode, guard, delta) ==
    LET l2 == [l EXCEPT !.training = mode, !.loraGrad = mode]
    IN  IF ~l.hasLora THEN Outcome("AttributeError", [l EXCEPT !.training = mode], w)
        ELSE IF mode /\ l.merge_weights /\ l.merged
             THEN FoldStep(l2, w, guard, delta, FALSE)
        ELSE IF ~mode /\ l.merge_weights
             THEN FoldStep(l2, w, guard, delta, TRUE)
        ELSE Outcome("ok", l2, w)

\* The body shared by the four train(mode) overrides:
\*   nn.<Base>.train(self, mode)
\*   self.lora_A.requires_grad = mode ; self.lora_B.requires_grad = mode
\*   if mode and self.merge_weights and self.merged: <unmerge>
\*   if not mode and self.merge_weights and not self.merged: <merge>
\* A layer built without lora_A (r = 0) raises AttributeError at the second
\* line.
TrainBody(l, w, mode, guard, delta) ==
    LET l1 == [l EXCEPT !.training = mode]
        l2 == [l1 EXCEPT !.loraGrad = mode]
    IN  IF ~l.hasLora THEN Outcome("AttributeError", l1, w)
        ELSE IF mode /\ l.merge_weights /\ l.merged
             THEN FoldStep(l2, w, guard, delta, FALSE)
        ELSE IF ~mode /\ l.merge_weights /\ ~l.merged
             THEN FoldStep(l2, w, guard, delta, TRUE)
        ELSE Outcome("ok", l2, w)

LinearTrain(l, w, mode) == TrainBody(l, w, mode, l.r > 0, LinearDelta(l))
EmbeddingTrain(l, w, mode) == TrainBody(l, w, mode, l.r > 0, EmbeddingDelta(l))
MergedLinearTrain(l, w, mode) ==
    TrainBody(l, w, mode, l.r > 0 /\ AnyOf(l.enable_lora), MergedLinearDelta(l))
\* Conv2d.train folds without testing r.
Conv2dTrain(l, w, mode) == TrainBody(l, w, mode, TRUE, Conv2dDelta(l, w))

\* layer.train(mode), dispatched on the layer's class.
LayerTrain(l, w, mode) ==
    CASE l.variant = "Linear"       -> LinearTrain(l, w, mode)
      [] l.variant = "Embedding"    -> EmbeddingTrain(l, w, mode)
      [] l.variant = "MergedLinear" -> MergedLinearTrain(l, w, mode)
      [] l.variant = "Conv2d"       -> Conv2dTrain(l, w, mode)

\* The body shared by the four eval() overrides:
\*   nn.<Base>.eval(self)         -- nn.Module.eval is self.train(False), which
\*                                   runs the train override above
\*   self.lora_A.requires_grad = False ; self.lora_B.requires_grad = False
\*   if self.merge_weights and not self.merged: <merge>
\* t is the outcome of the self.train(False) that the first line runs.
EvalBody(t, guard, delta) ==
    IF t.st # "ok" THEN t
    ELSE IF t.l.merge_weights /\ ~t.l.merged
         THEN FoldStep([t.l EXCEPT !.loraGrad = FALSE], t.w, guard, delta, TRUE)
    ELSE Outcome("ok", [t.l EXCEPT !.loraGrad = FALSE], t.w)

LinearEval(l, w) == EvalBody(LinearTrain(l, w, FALSE), l.r > 0, LinearDelta(l))
EmbeddingEval(l, w) ==
    EvalBody(EmbeddingTrain(l, w, FALSE), l.r > 0, EmbeddingEvalDelta(l))
MergedLinearEval(l, w) ==
    EvalBody(MergedLinearTrain(l, w, FALSE), l.r > 0 /\ AnyOf(l.enable_lora),
             MergedLinearDelta(l))
Conv2dEval(l, w) == EvalBody(Conv2dTrain(l, w, FALSE), TRUE, Conv2dDelta(l, w))

\* layer.eval(), dispatched on the layer's class.
LayerEval(l, w) ==
    CASE l.variant = "Linear"       -> LinearEval(l, w)
      [] l.variant = "Embedding"    -> EmbeddingEval(l, w)
      [] l.variant = "MergedLinear" -> MergedLinearEval(l, w)
      [] l.variant = "Conv2d"       -> Conv2dEval(l, w)

\* ------------------------------------------------------------ forward
\* The outcome of a forward call: st is "ok" or the exception raised, y the
\* 1 x out result row.
Result(st, y) == [st |-> st, y |-> y]
FromTensor(t) == IF t.ok THEN Result("ok", t.val) ELSE Result("RuntimeError", <<>>)

\* self.lora_dropout(x): the identity lambda when lora_dropout = 0 and in
\* evaluation mode; in training mode nn.Dropout(p = 1/2) zeroes the elements
\* the mask drops and scales the others by 1 / (1 - p) = 2.
Dropout(l, x, keep) ==
    IF l.dropout /\ l.training
    THEN Mat(Rows(x), Cols(x), LAMBDA i, j: IF keep[j] THEN 2 * x[i][j] ELSE 0)
    ELSE x

\* F.linear(x, T(self.weight), bias=self.bias)
BaseLinear(l, w, b, x) == FLinear(x, T(l, w), b)

\* Faulty variant: the additive path is taken in the merged state too.
LinearForwardAlwaysAdds(l, w, b, x, keep) ==
    IF l.r > 0 /\ l.activated
    THEN LET times_B(xa) == IF xa.ok THEN MatMul(xa.val, Tr(l.lora_B)) ELSE ShapeErr
             sum(result, xab) ==
                 IF ~result.ok \/ ~xab.ok THEN Result("RuntimeError", <<>>)
                 ELSE FromTensor(AddInPlace(result.val, Scale(xab.val, l.scaling), 1))
         IN  sum(BaseLinear(l, w, b, x),
                 times_B(MatMul(Dropout(l, x, keep), Tr(l.lora_A))))
    ELSE FromTensor(BaseLinear(l, w, b, x))

\* Linear.forward
LinearForward(l, w, b, x, keep) ==
    IF l.r > 0 /\ ~l.merged /\ l.activated
    THEN LET times_B(xa) == IF xa.ok THEN MatMul(xa.val, Tr(l.lora_B)) ELSE ShapeErr
             sum(result, xab) ==
                 IF ~result.ok \/ ~xab.ok THEN Result("RuntimeError", <<>>)
                 ELSE FromTensor(AddInPlace(result.val, Scale(xab.val, l.scaling), 1))
         IN  sum(BaseLinear(l, w, b, x),
                 times_B(MatMul(Dropout(l, x, keep), Tr(l.lora_A))))
    ELSE FromTensor(BaseLinear(l, w, b, x))

\* MergedLinear.forward
MergedLinearForward(l, w, b, x, keep) ==
    IF l.merged \/ ~l.activated THEN FromTensor(BaseLinear(l, w, b, x))
    ELSE LET conv(after_A) == IF after_A.ok THEN GroupedConv1d(l, Tr(after_A.val))
                              ELSE ShapeErr
             pad(after_B) == IF after_B.ok THEN zero_pad(l, Tr(after_B.val))
                             ELSE ShapeErr
             sum(result, padded) ==
                 IF ~result.ok THEN Result("RuntimeError", <<>>)
                 ELSE IF l.r > 0
                 THEN IF ~l.hasLora THEN Result("AttributeError", <<>>)
                      ELSE IF ~padded.ok THEN Result("RuntimeError", <<>>)
                      ELSE FromTensor(AddInPlace(result.val,
                                                 Scale(padded.val, l.scaling), 1))
                 ELSE Result("ok", result.val)
         IN  sum(BaseLinear(l, w, b, x),
                 IF l.r > 0 /\ l.hasLora
                 THEN pad(conv(MatMul(Dropout(l, x, keep), Tr(l.lora_A))))
                 ELSE ShapeErr)

\* nn.Embedding.forward(self, x) = weight[x] ; x is a row index.
EmbeddingLookup(table, x) ==
    IF x \in 1..Rows(table) THEN Ok(<<table[x]>>) ELSE ShapeErr

\* Embedding.forward
EmbeddingForward(l, w, x) ==
    IF l.r > 0 /\ ~l.merged /\ l.activated
    THEN LET times_B(after_A) ==
                 IF after_A.ok THEN MatMul(after_A.val, Tr(l.lora_B)) ELSE ShapeErr
             sum(result, ab) ==
                 IF ~result.ok \/ ~ab.ok THEN Result("RuntimeError", <<>>)
                 ELSE FromTensor(AddInPlace(result.val, Scale(ab.val, l.scaling), 1))
         IN  sum(EmbeddingLookup(w, x), times_B(EmbeddingLookup(Tr(l.lora_A), x)))
    ELSE FromTensor(EmbeddingLookup(w, x))

\* Conv2d.forward on a 1 x 1 input with kernel_size 1: F.conv2d(x, W, bias)
\* is x @ W.T + bias over the channels.
Conv2dForward(l, w, b, x) ==
    IF l.r > 0 /\ ~l.merged /\ l.activated
    THEN LET plus(d) == IF d.ok /\ Rows(d.val) = Rows(w) /\ Cols(d.val) = Cols(w)
                        THEN AddInPlace(w, d.val, 1) ELSE ShapeErr
             conv(wd) == IF ~wd.ok THEN Result("RuntimeError", <<>>)
                         ELSE FromTensor(FLinear(x, wd.val, b))
         IN  conv(plus(Conv2dDelta(l, w)))
    ELSE FromTensor(FLinear(x, w, b))

\* layer.forward(x), dispatched on the layer's class.
LayerForward(l, w, b, x, keep) ==
    CASE l.variant = "Linear"       -> LinearForward(l, w, b, x, keep)
      [] l.variant = "MergedLinear" -> MergedLinearForward(l, w, b, x, keep)
      [] l.variant = "Embedding"    -> EmbeddingForward(l, w, x)
      [] l.variant = "Conv2d"       -> Conv2dForward(l, w, b, x)

\* The forward of the plain torch layer of the given kind (nn.Linear,
\* nn.Embedding, nn.Conv2d) holding weight w and bias b.
PlainForward(kind, w, b, x) ==
    IF kind = "Embedding" THEN FromTensor(EmbeddingLookup(w, x))
    ELSE FromTensor(FLinear(x, w, b))

\* ================================================================ state
VARIABLES
    node,      \* the host layer: [kind, inF, outF]
    weight,    \* the weight tensor the host layer and its adapters share
    bias,      \* the bias row they share, <<>> when the layer has none
    slots,     \* the adapter layers, in attachment order (the host's _modules)
    wrapped,   \* whether the dispatching wrapper is installed (forward_origin)
    origin,    \* ghost: the weight tensor as it was before any merge
    premerge,  \* ghost: the weight tensor just before the latest merge
    out,       \* ghost: the latest call, its arguments and its outcome
    loc,       \* module locator: selector, module keys and the keys found
    sd,        \* state-dict filter: the mapping, the arguments and the result
    requires_grad,  \* the requires_grad flag of each base parameter, by name
    replaced   \* ghost: how many attached adapters a later patch call replaced

layerVars == <<node, weight, bias, slots, wrapped, origin, premerge, out>>
vars == <<node, weight, bias, slots, wrapped, origin, premerge, out, loc, sd,
          requires_grad, replaced>>

Idle == [op |-> "none"]

\* ------------------------------------------------------------- inputs
Dims == 1..MaxDim
Ranks == 0..MaxRank
\* Seed 0: the factors as reset_parameters leaves them; seed 1: trained ones.
Seeds == {0, 1}
\* lora_alpha / r
AlphaFactors == {2}
\* enable_lora masks
Masks == [1..1 -> BOOLEAN] \cup [1..2 -> BOOLEAN]

\* The constructor arguments of an adapter layer.  lora_alpha is a multiple
\* of r; a zero-rank adapter has no factors, so its lora_alpha is immaterial.
Configs(variant) ==
    { [r |-> r, lora_alpha |-> k * r, dropout |-> d, merge_weights |-> mw,
       fan_in_fan_out |-> f, enable_lora |-> m] :
        r \in Ranks, k \in AlphaFactors, d \in BOOLEAN, mw \in BOOLEAN,
        f \in IF variant \in {"Linear", "MergedLinear"} THEN BOOLEAN ELSE {FALSE},
        m \in IF variant = "MergedLinear" THEN Masks ELSE {<<FALSE>>} }

\* The torch layer class an adapter variant extends.
BaseKind(variant) == IF variant = "MergedLinear" THEN "Linear" ELSE variant

\* The inputs of a forward call: a row index for an embedding, else a 1 x in
\* row (the unit rows and the zero row determine an affine map).
Inputs(inF, kind) ==
    IF kind = "Embedding" THEN 1..inF
    ELSE { <<[j \in 1..inF |-> IF j = k THEN 1 ELSE 0]>> : k \in 0..inF }

\* The dropout masks that matter to a forward call through layer l.
Keeps(l, inF) ==
    IF l.dropout /\ l.training THEN [1..inF -> BOOLEAN] ELSE {[j \in 1..inF |-> TRUE]}

\* ===================================================== a layer on its own
\* A layer built by calling its class directly: Linear(in, out, r=...),
\* MergedLinear(...), Embedding(...), Conv2d(in, out, 1, r=...).  The layer
\* owns its weight; with fan_in_fan_out the constructor transposes it
\* (self.weight.data = self.weight.data.T).  MergedLinear asserts that
\* len(enable_lora) divides out_features.
InitLayer ==
    /\ \E variant \in Variants, inF \in Dims, outF \in Dims, seed \in Seeds,
          hasBias \in BOOLEAN:
         \E cfg \in Configs(variant):
           /\ variant = "MergedLinear" => outF % Len(cfg.enable_lora) = 0
           /\ cfg.r = 0 => (seed = 0 /\ cfg.lora_alpha = 0)
           /\ cfg.r > 0 => cfg.lora_alpha > 0
           /\ variant = "Embedding" => (~hasBias /\ ~cfg.dropout)
           /\ node = [kind |-> BaseKind(variant), inF |-> inF, outF |-> outF,
                       fan |-> cfg.fan_in_fan_out]
           /\ slots = <<NewLayer(variant, "default", cfg, inF, outF, seed)>>
           /\ weight = IF variant = "Embedding" THEN BaseWeight(inF, outF)
                       ELSE IF cfg.fan_in_fan_out THEN Tr(BaseWeight(outF, inF))
                       ELSE BaseWeight(outF, inF)
           /\ bias = IF hasBias THEN BaseBias(outF) ELSE <<>>
    /\ wrapped = FALSE
    /\ origin = weight
    /\ premerge = weight
    /\ out = Idle
    /\ requires_grad = [weight |-> ~slots[1].hasLora, bias |-> TRUE]
    /\ replaced = 0
    /\ loc = Idle
    /\ sd = Idle

\* slots[i].train(mode), called on the adapter layer itself.
AdapterTrain(i, mode) ==
    /\ i \in 1..Len(slots)
    /\ \E o \in {LayerTrain(slots[i], weight, mode)}:
           /\ slots' = [slots EXCEPT ![i] = o.l]
           /\ weight' = o.w
           /\ premerge' = IF ~slots[i].merged /\ o.l.merged THEN weight ELSE premerge
           /\ out' = [op |-> "train", mode |-> mode, slot |-> i, st |-> o.st,
                      wasMerged |-> slots[i].merged, before |-> weight]
    /\ UNCHANGED <<node, bias, wrapped, origin, loc, sd,
                 requires_grad, replaced>>

\* slots[i].eval(), called on the adapter layer itself.
AdapterEval(i) ==
    /\ i \in 1..Len(slots)
    /\ \E o \in {LayerEval(slots[i], weight)}:
           /\ slots' = [slots EXCEPT ![i] = o.l]
           /\ weight' = o.w
           /\ premerge' = IF ~slots[i].merged /\ o.l.merged THEN weight ELSE premerge
           /\ out' = [op |-> "eval", mode |-> FALSE, slot |-> i, st |-> o.st,
                      wasMerged |-> slots[i].merged, before |-> weight]
    /\ UNCHANGED <<node, bias, wrapped, origin, loc, sd,
                 requires_grad, replaced>>

\* ActivationMixin.set_activation(activate) on slots[i].
set_activation(l, activate) == [l EXCEPT !.activated = activate]

SetActivation(i, activate) ==
    /\ i \in 1..Len(slots)
    /\ slots' = [slots EXCEPT ![i] = set_activation(slots[i], activate)]
    /\ out' = [op |-> "set_activation", st |-> "ok"]
    /\ UNCHANGED <<node, weight, bias, wrapped, origin, premerge, loc, sd,
                 requires_grad, replaced>>

\* slots[i].forward(x), called on the adapter layer itself.
AdapterForward(i, x, keep) ==
    /\ i \in 1..Len(slots)
    /\ \E res \in {LayerForward(slots[i], weight, bias, x, keep)}:
           out' = [op |-> "forward", slot |-> i, x |-> x, st |-> res.st, y |-> res.y]
    /\ UNCHANGED <<node, weight, bias, slots, wrapped, origin, premerge, loc, sd,
                 requires_grad, replaced>>

NextLayer ==
    \/ \E mode \in BOOLEAN: AdapterTrain(1, mode)
    \/ AdapterEval(1)
    \/ \E a \in BOOLEAN: SetActivation(1, a)
    \/ \E x \in Inputs(node.inF, node.kind):
         \E keep \in Keeps(slots[1], node.inF): AdapterForward(1, x, keep)

SpecLayer == InitLayer /\ [][NextLayer]_vars
\* ===================================================== a patched node
\* One node of the module graph (an nn.Linear, nn.Embedding or nn.Conv2d of
\* the host model, or a layer of a kind the patch engine has no adapter for)
\* and the adapters that successive LoRA.prepare_model calls attach to it.
AdapterNames == {"default", "second"}
\* The factors of the adapter of a given name, as trained; the adapter named
\* "untrained" keeps the factors reset_parameters gave it.
SeedOf(name) == IF name = "default" THEN 1 ELSE IF name = "second" THEN 2 ELSE 0

NodeKinds == {"Linear", "Embedding", "Conv2d", "Other"}
\* <<in_features, out_features>> of the node (<<num_embeddings,
\* embedding_dim>>, <<in_channels, out_channels>>).
NodeShapes == {<<1, 2>>, <<2, 2>>}

\* The keyword arguments LoRA.prepare_model passes from a LoRAConfig.
\* fan_in_fan_out describes how the host layer stores its weight, so the
\* configurations written for one node agree on it (nd.fan).
\* enable_lora masks of a patch config: one whose length divides the output
\* width of every node shape, one whose length does not.
PatchMasks == {<<TRUE, FALSE>>, <<TRUE, FALSE, TRUE>>}

PatchConfigs(nd) ==
    { [r |-> r, lora_alpha |-> 2 * r, dropout |-> d, merge_weights |-> mw,
       use_merged_linear |-> u, fan_in_fan_out |-> nd.fan, enable_lora |-> m] :
        r \in {0, 1}, d \in BOOLEAN, mw \in BOOLEAN, u \in BOOLEAN,
        m \in PatchMasks }

Init ==
    /\ \E kind \in NodeKinds, shape \in NodeShapes, fan \in BOOLEAN:
         /\ node = [kind |-> kind, inF |-> shape[1], outF |-> shape[2], fan |-> fan]
         /\ weight = IF kind = "Embedding" THEN BaseWeight(shape[1], shape[2])
                     ELSE BaseWeight(shape[2], shape[1])
         /\ bias = IF kind = "Embedding" THEN <<>> ELSE BaseBias(shape[2])
    /\ slots = <<>>
    /\ wrapped = FALSE
    /\ origin = weight
    /\ premerge = weight
    /\ out = Idle
    /\ requires_grad = [weight |-> TRUE, bias |-> TRUE]
    /\ replaced = 0
    /\ loc = Idle
    /\ sd = Idle

\* The adapter class the patch engine picks for a matched node, and the
\* outcome of calling its constructor:
\*   nn.Linear    -> MergedLinear(.., **kwargs) if use_merged_linear,
\*                   else Linear(.., **kwargs) without enable_lora
\*   nn.Embedding -> Embedding(.., r, lora_alpha, merge_weights)
\*   nn.Conv2d    -> Conv2d(.., kernel_size=sub_module.kernel_size, **kwargs):
\*                   kwargs still holds enable_lora, which nn.Conv2d.__init__
\*                   rejects
\*   other kinds  -> lora_module stays None
\* A construction that skips MergedLinear's divisibility assertion.
ConstructUnchecked(nd, name, cfg) ==
    CASE nd.kind = "Linear" /\ cfg.use_merged_linear ->
            [st |-> "ok",
             l |-> NewLayer("MergedLinear", name, cfg, nd.inF, nd.outF, SeedOf(name))]
      [] nd.kind = "Linear" /\ ~cfg.use_merged_linear ->
            [st |-> "ok",
             l |-> NewLayer("Linear", name, cfg, nd.inF, nd.outF, SeedOf(name))]
      [] nd.kind = "Embedding" ->
            [st |-> "ok",
             l |-> NewLayer("Embedding", name, cfg, nd.inF, nd.outF, SeedOf(name))]
      [] nd.kind = "Conv2d" -> [st |-> "TypeError"]
      [] OTHER -> [st |-> "skipped"]

Construct(nd, name, cfg) ==
    CASE nd.kind = "Linear" /\ cfg.use_merged_linear ->
            IF nd.outF % Len(cfg.enable_lora) # 0
            THEN [st |-> "AssertionError"]
            ELSE [st |-> "ok",
                  l |-> NewLayer("MergedLinear", name, cfg, nd.inF, nd.outF, SeedOf(name))]
      [] nd.kind = "Linear" /\ ~cfg.use_merged_linear ->
            [st |-> "ok",
             l |-> NewLayer("Linear", name, cfg, nd.inF, nd.outF, SeedOf(name))]
      [] nd.kind = "Embedding" ->
            [st |-> "ok",
             l |-> NewLayer("Embedding", name, cfg, nd.inF, nd.outF, SeedOf(name))]
      [] nd.kind = "Conv2d" -> [st |-> "TypeError"]
      [] OTHER -> [st |-> "skipped"]

\* Index of the slot named name, 0 when there is none.
SlotOf(name) ==
    IF \E i \in 1..Len(slots): slots[i].name = name
    THEN CHOOSE i \in 1..Len(slots): slots[i].name = name
    ELSE 0

\* Faulty variant: every pass that attaches an adapter wraps forward again.
InstallsWrapperAlways(has_forward_origin, attaches) == attaches
\* if not hasattr(sub_module, 'forward_origin'): forward_origin = forward ;
\* forward = _forward      -- inside `if lora_module is not None`
InstallsWrapper(has_forward_origin, attaches) == attaches /\ ~has_forward_origin

\* LoRA._dynamic_patch_lora on a graph in which the selector matches this
\* node:
\*   lora_module.weight = sub_module.weight ; lora_module.bias = sub_module.bias
\*   setattr(sub_module, f'loramodule_{adapter_name}', lora_module)
\*   if not hasattr(sub_module, 'forward_origin'): install the wrapper
\* setattr on a name the node already has puts the new adapter in the place of
\* the old one in _modules.  The constructor's  self.weight.requires_grad =
\* False  acts on the adapter's own fresh weight, which the first line drops:
\* the flags of the node's tensors stay as they are.
Patch(name, cfg) ==
    /\ \E c \in {Construct(node, name, cfg)}:
           /\ slots' = IF c.st # "ok" THEN slots
                        ELSE IF SlotOf(name) = 0 THEN Append(slots, c.l)
                        ELSE [slots EXCEPT ![SlotOf(name)] = c.l]
           /\ wrapped' = (wrapped \/ InstallsWrapper(wrapped, c.st = "ok"))
           /\ replaced' = IF c.st = "ok" /\ SlotOf(name) # 0 THEN replaced + 1
                           ELSE replaced
           /\ out' = [op |-> "patch", name |-> name,
                      st |-> IF c.st = "skipped" THEN "ok" ELSE c.st,
                      attached |-> (c.st = "ok"),
                      duplicate |-> (SlotOf(name) # 0),
                      installed |-> InstallsWrapper(wrapped, c.st = "ok"),
                      \* len(enable_lora) of a grouped adapter, else 0
                      groups |-> IF node.kind = "Linear" /\ cfg.use_merged_linear
                                 THEN Len(cfg.enable_lora) ELSE 0]
    /\ UNCHANGED <<node, weight, bias, origin, premerge, loc, sd,
                 requires_grad>>

\* nn.Module.train(mode) on the node: self.training = mode, then
\* child.train(mode) for each child in _modules order; the first exception
\* ends the walk.
RECURSIVE TrainChildren(_, _, _, _)
TrainChildren(ls, w, mode, i) ==
    IF i > Len(ls) THEN Outcome("ok", ls, w)
    ELSE LET rest(o) == IF o.st # "ok" THEN Outcome(o.st, [ls EXCEPT ![i] = o.l], o.w)
                        ELSE TrainChildren([ls EXCEPT ![i] = o.l], o.w, mode, i + 1)
         IN  rest(LayerTrain(ls[i], w, mode))

\* model.train(mode); model.eval() is model.train(False).
ModelTrain(mode) ==
    /\ \E o \in {TrainChildren(slots, weight, mode, 1)}:
           /\ slots' = o.l
           /\ weight' = o.w
           /\ out' = [op |-> "model_train", mode |-> mode, st |-> o.st]
    /\ UNCHANGED <<node, bias, wrapped, origin, premerge, loc, sd,
                 requires_grad, replaced>>

\* LoRA.activate_adapter(model, adapter_name, activate)
ActivateAdapter(name, activate) ==
    /\ SlotOf(name) # 0
    /\ SetActivation(SlotOf(name), activate)

\* The scan of the wrapper _forward over self.named_modules(): the node
\* itself (name ''), then each slot 'loramodule_<name>' followed by its own
\* submodules ('loramodule_<name>.lora_dropout' when lora_dropout > 0).
\* Every name containing 'loramodule_' is asked is_activated(); nn.Dropout
\* has no such method.  The result is the slot routed to, 0 for
\* forward_origin, -1 for AttributeError.
RECURSIVE Scan(_, _)
Scan(ls, i) ==
    IF i > Len(ls) THEN 0
    ELSE IF ls[i].activated THEN i
    ELSE IF ls[i].dropout THEN -1
    ELSE Scan(ls, i + 1)

\* node.forward(x): the plain forward while the node is not wrapped, else the
\* wrapper.
NodeForward(x, keep) ==
    /\ \E route \in {IF wrapped THEN Scan(slots, 1) ELSE 0}:
         \E res \in {IF route = -1 THEN Result("AttributeError", <<>>)
                     ELSE IF route = 0 THEN PlainForward(node.kind, weight, bias, x)
                     ELSE LayerForward(slots[route], weight, bias, x, keep)}:
           out' = [op |-> "node_forward", x |-> x, route |-> route,
                   st |-> res.st, y |-> res.y]
    /\ UNCHANGED <<node, weight, bias, slots, wrapped, origin, premerge, loc, sd,
                 requires_grad, replaced>>

\* The dropout masks that matter to a forward call on the node.
NodeKeeps ==
    IF wrapped /\ Scan(slots, 1) > 0 THEN Keeps(slots[Scan(slots, 1)], node.inF)
    ELSE {[j \in 1..node.inF |-> TRUE]}

\* The callers of this specification give each adapter a name of its own.
Next ==
    \/ \E name \in {a \in AdapterNames: SlotOf(a) = 0}, cfg \in PatchConfigs(node):
         Patch(name, cfg)
    \/ \E mode \in BOOLEAN: ModelTrain(mode)
    \/ \E name \in AdapterNames, a \in BOOLEAN: ActivateAdapter(name, a)
    \/ \E x \in Inputs(node.inF, node.kind), keep \in NodeKeeps: NodeForward(x, keep)

Spec == Init /\ [][Next]_vars

\* ------------------------------------------------------------- unpatch
\* LoRA.unpatch_lora(model, config) on a graph in which config's selector
\* matches this node.
\*   - It reads config.replace_modules.  LoRAConfig declares target_modules
\*     and no replace_modules; has_replace_modules tells whether the config
\*     object has the attribute from elsewhere (its base class, the caller).
\*     Without it the first read raises AttributeError.
\*   - origin_module is built only if the matched module is itself an instance
\*     of the adapter classes Linear, Embedding or Conv2d (MergedLinear is
\*     none of them).  A node that patch has wrapped is a plain torch layer
\*     with adapters as children, so nothing is done to it.  A layer built
\*     directly from an adapter class (not wrapped, one slot) is merged
\*     (merge_weights = True ; eval()) and replaced by a plain layer holding
\*     its weight and bias.
Unpatch(has_replace_modules) ==
    /\ \E isAdapter \in {/\ ~wrapped
                          /\ slots # <<>>
                          /\ slots[1].variant \in {"Linear", "Embedding", "Conv2d"}}:
         \E o \in {IF has_replace_modules /\ isAdapter
                    THEN LayerEval([slots[1] EXCEPT !.merge_weights = TRUE], weight)
                    ELSE Outcome(IF has_replace_modules THEN "ok" ELSE "AttributeError",
                                 slots, weight)}:
           /\ slots' = IF ~(has_replace_modules /\ isAdapter) THEN slots
                        ELSE IF o.st = "ok" THEN <<>> ELSE <<o.l>>
           /\ weight' = o.w
           /\ out' = [op |-> "unpatch", st |-> o.st, after |-> out.op,
                      carried |-> Len(slots)]
    /\ UNCHANGED <<node, bias, wrapped, origin, premerge, loc, sd,
                   requires_grad, replaced>>

\* Patch passes that attach untrained adapters, unpatch calls and forward
\* calls.
NextUnpatch ==
    \/ \E name \in {a \in {"untrained", "second"}: SlotOf(a) = 0},
          cfg \in PatchConfigs(node): Patch(name, cfg)
    \/ \E has_replace_modules \in BOOLEAN: Unpatch(has_replace_modules)
    \/ \E x \in Inputs(node.inF, node.kind), keep \in NodeKeeps: NodeForward(x, keep)

SpecUnpatch == Init /\ [][NextUnpatch]_vars

\* ------------------------------------------------- patching a name again
\* Callers that also patch under a name the node already carries, at most
\* MaxReplaced times.
NextRepatch ==
    \/ \E name \in AdapterNames, cfg \in PatchConfigs(node):
         /\ SlotOf(name) # 0 => replaced < MaxReplaced
         /\ Patch(name, cfg)
    \/ \E mode \in BOOLEAN: ModelTrain(mode)
    \/ \E x \in Inputs(node.inF, node.kind), keep \in NodeKeeps: NodeForward(x, keep)

SpecRepatch == Init /\ [][NextRepatch]_vars

\* ===================================================== the module locator
\* Strings are sequences of characters.  The fully-qualified paths of
\* model.named_modules() come in pre-order, the model itself ('') first.
\* The host model is
\*     ''  >  l  >  l.q   l.xq   l.ka   l.k   l.c
\*         >  q
\* where l is a container, l.c an nn.Conv2d and the other leaves nn.Linear.
PathPool ==
    << <<>>,
       <<"l">>,
       <<"l", ".", "q">>,
       <<"l", ".", "x", "q">>,
       <<"l", ".", "k", "a">>,
       <<"l", ".", "k">>,
       <<"l", ".", "c">>,
       <<"q">> >>

\* The class of the node at a path.
KindAt(path) ==
    IF path \in {<<>>, <<"l">>} THEN "Other"
    ELSE IF path = <<"l", ".", "c">> THEN "Conv2d"
    ELSE "Linear"

\* The module graphs: the model, and any of the other nodes whose parent is
\* there too.
ModuleKeys ==
    { SelectSeq(PathPool, LAMBDA p: p \in present \cup {<<>>}) :
        present \in { ps \in SUBSET {PathPool[i] : i \in 2..Len(PathPool)} :
                        (\E p \in ps: Len(p) > 1 /\ p[1] = "l") => <<"l">> \in ps } }

\* A regex is a sequence of atoms: a literal character (an escaped '\.'
\* included), or '.', each possibly starred.
Lit(c) == [any |-> FALSE, c |-> c, star |-> FALSE]
AnyChar == [any |-> TRUE, c |-> "", star |-> FALSE]
Star(a) == [a EXCEPT !.star = TRUE]
Accepts(a, c) == a.any \/ a.c = c

\* The regex selectors:  ''  'q'  'l'  'l.q'  'l\.q'  '.*q'  '.*\.q'  'l.*'
RegexPool ==
    { <<>>,
      <<Lit("q")>>,
      <<Lit("l")>>,
      <<Lit("l"), AnyChar, Lit("q")>>,
      <<Lit("l"), Lit("."), Lit("q")>>,
      <<Star(AnyChar), Lit("q")>>,
      <<Star(AnyChar), Lit("."), Lit("q")>>,
      <<Lit("l"), Star(AnyChar)>> }

\* The strings a list selector is made of:  'q'  'k'  '.q'  'l.k'  'c'
TargetPool ==
    << <<"q">>, <<"k">>, <<".", "q">>, <<"l", ".", "k">>, <<"c">> >>

\* replace_modules: a str (a regex) or a list of literal strings.
Selectors ==
    { [isStr |-> TRUE, re |-> re, targets |-> <<>>] : re \in RegexPool }
    \cup
    { [isStr |-> FALSE, re |-> <<>>,
       targets |-> SelectSeq(TargetPool, LAMBDA t: t \in ts)] :
        ts \in SUBSET {TargetPool[i] : i \in 1..Len(TargetPool)} }

\* Faulty variant: re.match, which accepts a match of a prefix of the string.
RECURSIVE MatchPrefixFrom(_, _, _, _)
MatchPrefixFrom(re, i, s, j) ==
    IF i > Len(re) THEN TRUE
    ELSE IF re[i].star
         THEN \/ MatchPrefixFrom(re, i + 1, s, j)
              \/ /\ j <= Len(s)
                 /\ Accepts(re[i], s[j])
                 /\ MatchPrefixFrom(re, i, s, j + 1)
    ELSE /\ j <= Len(s)
         /\ Accepts(re[i], s[j])
         /\ MatchPrefixFrom(re, i + 1, s, j + 1)
MatchPrefix(re, s) == MatchPrefixFrom(re, 1, s, 1)

\* re.fullmatch(re, s): atoms i.. of re match s from position j to its end.
RECURSIVE MatchFrom(_, _, _, _)
MatchFrom(re, i, s, j) ==
    IF i > Len(re) THEN j > Len(s)
    ELSE IF re[i].star
         THEN \/ MatchFrom(re, i + 1, s, j)
              \/ /\ j <= Len(s)
                 /\ Accepts(re[i], s[j])
                 /\ MatchFrom(re, i, s, j + 1)
    ELSE /\ j <= Len(s)
         /\ Accepts(re[i], s[j])
         /\ MatchFrom(re, i + 1, s, j + 1)
FullMatch(re, s) == MatchFrom(re, 1, s, 1)

\* Faulty variant: target_key in module_key.
FoundAnywhere(s, t) ==
    \E i \in 0..(Len(s) - Len(t)): SubSeq(s, i + 1, i + Len(t)) = t
\* module_key.endswith(target_key)
EndsWith(s, t) ==
    /\ Len(t) <= Len(s)
    /\ SubSeq(s, Len(s) - Len(t) + 1, Len(s)) = t

\* target_module_found, as a truth value (a match object is always true).
TargetModuleFound(selector, module_key) ==
    IF selector.isStr THEN FullMatch(selector.re, module_key)
    ELSE \E i \in 1..Len(selector.targets): EndsWith(module_key, selector.targets[i])

\* The module keys the loop goes on with, in the order of module_keys.
Found(selector, module_keys) ==
    SelectSeq(module_keys, LAMBDA k: TargetModuleFound(selector, k))

\* The keyword arguments of the patch call under which the locator is
\* exercised.
LocatorConfig ==
    [r |-> 1, lora_alpha |-> 2, dropout |-> FALSE, merge_weights |-> TRUE,
     use_merged_linear |-> FALSE, fan_in_fan_out |-> FALSE,
     enable_lora |-> <<TRUE, FALSE>>]
NodeAt(path) == [kind |-> KindAt(path), inF |-> 1, outF |-> 1, fan |-> FALSE]

\* The loop body over the keys found: an adapter is attached to a node of a
\* supported kind, a node of another kind is passed over, and an exception
\* raised by a constructor ends the loop with the earlier nodes patched.
\* kwargs is shared by the iterations: the Linear branch pops enable_lora
\* from it, and the Conv2d constructor then fails its kernel_size assertion
\* (a tuple) instead of being refused the enable_lora keyword.
RECURSIVE PatchLoop(_, _, _, _)
PatchLoop(found, i, attached, has_enable_lora) ==
    IF i > Len(found) THEN [st |-> "ok", attached |-> attached]
    ELSE LET popped == has_enable_lora /\ ~(/\ KindAt(found[i]) = "Linear"
                                            /\ ~LocatorConfig.use_merged_linear)
             step(c) ==
                 IF c.st = "ok"
                 THEN PatchLoop(found, i + 1, Append(attached, found[i]), popped)
                 ELSE IF c.st = "skipped"
                 THEN PatchLoop(found, i + 1, attached, popped)
                 ELSE IF c.st = "TypeError" /\ ~has_enable_lora
                 THEN [st |-> "AssertionError", attached |-> attached]
                 ELSE [st |-> c.st, attached |-> attached]
         IN  step(Construct(NodeAt(found[i]), "default", LocatorConfig))

InitLocator ==
    /\ \E selector \in Selectors, module_keys \in ModuleKeys:
         loc = [op |-> "call", selector |-> selector, keys |-> module_keys]
    /\ node = NodeAt(<<>>)
    /\ weight = <<>>
    /\ bias = <<>>
    /\ slots = <<>>
    /\ wrapped = FALSE
    /\ origin = <<>>
    /\ premerge = <<>>
    /\ out = Idle
    /\ requires_grad = [weight |-> TRUE, bias |-> TRUE]
    /\ replaced = 0
    /\ sd = Idle

\* LoRA._dynamic_patch_lora(model, replace_modules, ...) on the graph.
PatchGraph ==
    /\ loc.op = "call"
    /\ \E found \in {Found(loc.selector, loc.keys)}:
         \E res \in {PatchLoop(found, 1, <<>>, TRUE)}:
           loc' = [op |-> "patch", selector |-> loc.selector, keys |-> loc.keys,
                   found |-> found, attached |-> res.attached, st |-> res.st,
                   \* the records logged: logger.info(modules), after the loop
                   log |-> IF res.st = "ok"
                           THEN <<[level |-> "info", keys |-> res.attached]>>
                           ELSE <<>>]
    /\ UNCHANGED <<node, weight, bias, slots, wrapped, origin, premerge, out, sd,
                 requires_grad, replaced>>

NextLocator == PatchGraph

SpecLocator == InitLocator /\ [][NextLocator]_vars

\* ===================================================== the state-dict filter
\* Parameter names are strings (sequences of characters).
\* 'loramodule_', 'lora_', 'bias'
LoraModulePrefix == <<"l", "o", "r", "a", "m", "o", "d", "u", "l", "e", "_">>
LoraParamMarker == <<"l", "o", "r", "a", "_">>
BiasMarker == <<"b", "i", "a", "s">>

\* t in s
Contains(s, t) ==
    \E i \in 0..(Len(s) - Len(t)): SubSeq(s, i + 1, i + Len(t)) = t
\* Faulty variant: the text before the slot marker prefix, as if the factors
\* were parameters of the node itself.
SplitAtSlot(s, t) ==
    IF ~Contains(s, LoraModulePrefix) THEN s
    ELSE SubSeq(s, 1, CHOOSE i \in 0..(Len(s) - Len(LoraModulePrefix)):
                          /\ SubSeq(s, i + 1, i + Len(LoraModulePrefix)) = LoraModulePrefix
                          /\ \A k \in 0..(i - 1):
                                SubSeq(s, k + 1, k + Len(LoraModulePrefix)) # LoraModulePrefix)
\* s.split(t)[0]: the text before the first occurrence of t, s when there is
\* none.
SplitHead(s, t) ==
    IF ~Contains(s, t) THEN s
    ELSE SubSeq(s, 1, CHOOSE i \in 0..(Len(s) - Len(t)):
                          /\ SubSeq(s, i + 1, i + Len(t)) = t
                          /\ \A k \in 0..(i - 1): SubSeq(s, k + 1, k + Len(t)) # t)

\* The adapter names:  'd'  'd2'  'lora_x'
FilterAdapterNames == {<<"d">>, <<"d", "2">>, <<"l", "o", "r", "a", "_", "x">>}

\* f'loramodule_{adapter_name}'
SlotMarker(adapter_name) == LoraModulePrefix \o adapter_name

\* The parameter names of a model with a linear layer q carrying adapters
\* and a norm layer n; the tensor of each is its position in this list.
\*     q.weight  q.bias  n.bias
\*     q.loramodule_d.lora_A  q.loramodule_d.lora_B
\*     q.loramodule_d.weight  q.loramodule_d.bias
\*     q.loramodule_d2.lora_A
\*     q.loramodule_lora_x.lora_A  q.loramodule_lora_x.bias
ParamNames ==
    << <<"q", ".", "w", "e", "i", "g", "h", "t">>,
       <<"q", ".", "b", "i", "a", "s">>,
       <<"n", ".", "b", "i", "a", "s">>,
       <<"q", ".", "l", "o", "r", "a", "m", "o", "d", "u", "l", "e", "_", "d", ".", "l", "o", "r", "a", "_", "A">>,
       <<"q", ".", "l", "o", "r", "a", "m", "o", "d", "u", "l", "e", "_", "d", ".", "l", "o", "r", "a", "_", "B">>,
       <<"q", ".", "l", "o", "r", "a", "m", "o", "d", "u", "l", "e", "_", "d", ".", "w", "e", "i", "g", "h", "t">>,
       <<"q", ".", "l", "o", "r", "a", "m", "o", "d", "u", "l", "e", "_", "d", ".", "b", "i", "a", "s">>,
       <<"q", ".", "l", "o", "r", "a", "m", "o", "d", "u", "l", "e", "_", "d", "2", ".", "l", "o", "r", "a", "_", "A">>,
       <<"q", ".", "l", "o", "r", "a", "m", "o", "d", "u", "l", "e", "_", "l", "o", "r", "a", "_", "x", ".", "l", "o", "r", "a", "_", "A">>,
       <<"q", ".", "l", "o", "r", "a", "m", "o", "d", "u", "l", "e", "_", "l", "o", "r", "a", "_", "x", ".", "b", "i", "a", "s">> >>
TensorOf(k) == CHOOSE i \in 1..Len(ParamNames): ParamNames[i] = k

\* The mappings: any of the parameters, each with its tensor.
StateDicts ==
    { [k \in ks |-> TensorOf(k)] :
        ks \in SUBSET {ParamNames[i] : i \in 1..Len(ParamNames)} }
BiasPolicies == {"none", "all", "lora_only", "other"}

\* {k: state_dict[k] for k in keys}
Entries(state_dict, keys) == [k \in keys |-> state_dict[k]]

\* f'loramodule_{adapter_name}' in k and 'lora_' in k
IsAdapterParam(k, adapter_name) ==
    Contains(k, SlotMarker(adapter_name)) /\ Contains(k, LoraParamMarker)

\* Faulty variant: every name with the bias marker.
IsAnyBias(k, adapter_name) == Contains(k, BiasMarker)
\* 'bias' in k and f'loramodule_{adapter_name}' not in k
IsBiasOutsideSlot(k, adapter_name) ==
    Contains(k, BiasMarker) /\ ~Contains(k, SlotMarker(adapter_name))

\* lora_state_dict(state_dict, adapter_name, bias)
lora_state_dict(state_dict, adapter_name, bias_policy) ==
    CASE bias_policy = "none" ->
            [st |-> "ok",
             result |-> Entries(state_dict,
                                {k \in DOMAIN state_dict: IsAdapterParam(k, adapter_name)})]
      [] bias_policy = "all" ->
            [st |-> "ok",
             result |-> Entries(state_dict,
                                {k \in DOMAIN state_dict:
                                    \/ IsAdapterParam(k, adapter_name)
                                    \/ IsBiasOutsideSlot(k, adapter_name)})]
      [] bias_policy = "lora_only" ->
            [st |-> "ok",
             result |-> Entries(state_dict,
                                {k \in DOMAIN state_dict: IsAdapterParam(k, adapter_name)}
                                \cup
                                ({SplitHead(k, LoraParamMarker) \o BiasMarker :
                                    k \in {n \in DOMAIN state_dict:
                                              IsAdapterParam(n, adapter_name)}}
                                 \cap DOMAIN state_dict))]
      [] OTHER -> [st |-> "NotImplementedError", result |-> <<>>]

InitFilter ==
    /\ \E state_dict \in StateDicts, adapter_name \in FilterAdapterNames,
          policy \in BiasPolicies:
         sd = [op |-> "call", state_dict |-> state_dict,
               adapter_name |-> adapter_name, bias |-> policy]
    /\ node = [kind |-> "Linear", inF |-> 1, outF |-> 1, fan |-> FALSE]
    /\ weight = <<>>
    /\ bias = <<>>
    /\ slots = <<>>
    /\ wrapped = FALSE
    /\ origin = <<>>
    /\ premerge = <<>>
    /\ out = Idle
    /\ requires_grad = [weight |-> TRUE, bias |-> TRUE]
    /\ replaced = 0
    /\ loc = Idle

\* A call of lora_state_dict.
Filter ==
    /\ sd.op = "call"
    /\ \E res \in {lora_state_dict(sd.state_dict, sd.adapter_name, sd.bias)}:
         sd' = [op |-> "filter", state_dict |-> sd.state_dict,
                adapter_name |-> sd.adapter_name, bias |-> sd.bias,
                st |-> res.st, result |-> res.result]
    /\ UNCHANGED <<node, weight, bias, slots, wrapped, origin, premerge, out, loc,
                 requires_grad, replaced>>

NextFilter == Filter

SpecFilter == InitFilter /\ [][NextFilter]_vars

\* ===================================================== the two callbacks
\* LoRA.prepare_model returns state_dict_callback and mark_trainable_callback,
\* both closed over config.bias and adapter_name.  They are exercised on a
\* host model with two linear layers q (with a bias) and v (without one),
\* each carrying any of the adapters 'd' and 'd2' (built with lora_dropout >
\* 0), and a norm layer n.
CallbackAdapterNames == << <<"d">>, <<"d", "2">> >>
\* The adapters a layer can carry, in attachment order.
Carried == { SelectSeq(CallbackAdapterNames, LAMBDA a: a \in as) :
               as \in SUBSET {CallbackAdapterNames[i] : i \in 1..Len(CallbackAdapterNames)} }

\* Concatenation of a sequence of sequences.
RECURSIVE Flatten(_)
Flatten(ss) == IF ss = <<>> THEN <<>> ELSE Head(ss) \o Flatten(Tail(ss))

\* model.named_modules(): each module's name and the name of the tensor its
\* bias attribute holds (<<>> when it has no bias attribute or the bias is
\* None).  An adapter's bias is the bias of the layer that carries it.
named_modules(model) ==
    << [name |-> <<>>, bias |-> <<>>],
       [name |-> <<"q">>, bias |-> <<"q", ".", "b", "i", "a", "s">>] >>
    \o Flatten([i \in 1..Len(model.q) |->
                  << [name |-> <<"q", ".", "l", "o", "r", "a", "m", "o", "d", "u", "l", "e", "_">> \o model.q[i], bias |-> <<"q", ".", "b", "i", "a", "s">>],
                     [name |-> <<"q", ".", "l", "o", "r", "a", "m", "o", "d", "u", "l", "e", "_">> \o model.q[i] \o <<".", "l", "o", "r", "a", "_", "d", "r", "o", "p", "o", "u", "t">>, bias |-> <<>>] >>])
    \o << [name |-> <<"v">>, bias |-> <<>>] >>
    \o Flatten([i \in 1..Len(model.v) |->
                  << [name |-> <<"v", ".", "l", "o", "r", "a", "m", "o", "d", "u", "l", "e", "_">> \o model.v[i], bias |-> <<>>],
                     [name |-> <<"v", ".", "l", "o", "r", "a", "m", "o", "d", "u", "l", "e", "_">> \o model.v[i] \o <<".", "l", "o", "r", "a", "_", "d", "r", "o", "p", "o", "u", "t">>, bias |-> <<>>] >>])
    \o << [name |-> <<"n">>, bias |-> <<"n", ".", "b", "i", "a", "s">>] >>

\* model.named_parameters(): the name of each parameter tensor, a tensor that
\* several modules hold being listed once, under its first name.
named_parameters(model) ==
    << <<"q", ".", "w", "e", "i", "g", "h", "t">>, <<"q", ".", "b", "i", "a", "s">> >>
    \o Flatten([i \in 1..Len(model.q) |->
                  << <<"q", ".", "l", "o", "r", "a", "m", "o", "d", "u", "l", "e", "_">> \o model.q[i] \o <<".", "l", "o", "r", "a", "_", "A">>,
                     <<"q", ".", "l", "o", "r", "a", "m", "o", "d", "u", "l", "e", "_">> \o model.q[i] \o <<".", "l", "o", "r", "a", "_", "B">> >>])
    \o << <<"v", ".", "w", "e", "i", "g", "h", "t">> >>
    \o Flatten([i \in 1..Len(model.v) |->
                  << <<"v", ".", "l", "o", "r", "a", "m", "o", "d", "u", "l", "e", "_">> \o model.v[i] \o <<".", "l", "o", "r", "a", "_", "A">>,
                     <<"v", ".", "l", "o", "r", "a", "m", "o", "d", "u", "l", "e", "_">> \o model.v[i] \o <<".", "l", "o", "r", "a", "_", "B">> >>])
    \o << <<"n", ".", "w", "e", "i", "g", "h", "t">>, <<"n", ".", "b", "i", "a", "s">> >>
\* The parameters of the host model itself.
BaseParameters == { <<"q", ".", "w", "e", "i", "g", "h", "t">>, <<"q", ".", "b", "i", "a", "s">>, <<"v", ".", "w", "e", "i", "g", "h", "t">>, <<"n", ".", "w", "e", "i", "g", "h", "t">>, <<"n", ".", "b", "i", "a", "s">> }

\* model.state_dict(): every parameter under every name that leads to it; the
\* value is the tensor, named by its first name.
state_dict_of(model) ==
    [k \in {named_parameters(model)[i] : i \in 1..Len(named_parameters(model))}
           |-> k]
    @@ [k \in { <<"q", ".", "l", "o", "r", "a", "m", "o", "d", "u", "l", "e", "_">> \o model.q[i] \o <<".", "w", "e", "i", "g", "h", "t">> : i \in 1..Len(model.q) } |-> <<"q", ".", "w", "e", "i", "g", "h", "t">>]
    @@ [k \in { <<"q", ".", "l", "o", "r", "a", "m", "o", "d", "u", "l", "e", "_">> \o model.q[i] \o <<".", "b", "i", "a", "s">> : i \in 1..Len(model.q) } |-> <<"q", ".", "b", "i", "a", "s">>]
    @@ [k \in { <<"v", ".", "l", "o", "r", "a", "m", "o", "d", "u", "l", "e", "_">> \o model.v[i] \o <<".", "w", "e", "i", "g", "h", "t">> : i \in 1..Len(model.v) } |-> <<"v", ".", "w", "e", "i", "g", "h", "t">>]

\* p.requires_grad = True for each tensor of names
SetTrainable(grad, names) == [p \in DOMAIN grad |-> grad[p] \/ p \in names]

\* Faulty variant: an unknown policy is taken for 'none'.
mark_lora_as_trainable_lenient(grad, model, adapter_name, bias_policy) ==
    CASE bias_policy = "all" ->
            [st |-> "ok",
             grad |-> SetTrainable(grad, {named_parameters(model)[i] :
                                            i \in {j \in 1..Len(named_parameters(model)) :
                                                     Contains(named_parameters(model)[j],
                                                              BiasMarker)}})]
      [] bias_policy = "lora_only" ->
            [st |-> "ok",
             grad |-> SetTrainable(grad, {named_modules(model)[i].bias :
                                            i \in {j \in 1..Len(named_modules(model)) :
                                                     /\ Contains(named_modules(model)[j].name,
                                                                 SlotMarker(adapter_name))
                                                     /\ named_modules(model)[j].bias # <<>>}})]
      [] OTHER -> [st |-> "ok", grad |-> grad]

\* mark_lora_as_trainable(model, adapter_name, bias)
mark_lora_as_trainable(grad, model, adapter_name, bias_policy) ==
    CASE bias_policy = "none" -> [st |-> "ok", grad |-> grad]
      [] bias_policy = "all" ->
            [st |-> "ok",
             grad |-> SetTrainable(grad, {named_parameters(model)[i] :
                                            i \in {j \in 1..Len(named_parameters(model)) :
                                                     Contains(named_parameters(model)[j],
                                                              BiasMarker)}})]
      [] bias_policy = "lora_only" ->
            [st |-> "ok",
             grad |-> SetTrainable(grad, {named_modules(model)[i].bias :
                                            i \in {j \in 1..Len(named_modules(model)) :
                                                     /\ Contains(named_modules(model)[j].name,
                                                                 SlotMarker(adapter_name))
                                                     /\ named_modules(model)[j].bias # <<>>}})]
      [] OTHER -> [st |-> "NotImplementedError", grad |-> grad]

\* The host model with its adapters attached, the base parameters trainable
\* or frozen in any way, the adapter factors trainable.
InitCallbacks ==
    /\ \E q \in Carried, v \in Carried: node = [kind |-> "Model", q |-> q, v |-> v]
    /\ \E adapter_name \in {CallbackAdapterNames[i] : i \in 1..Len(CallbackAdapterNames)},
          policy \in BiasPolicies:
         sd = [op |-> "call", state_dict |-> state_dict_of(node),
               adapter_name |-> adapter_name, bias |-> policy]
    /\ \E flags \in [BaseParameters -> BOOLEAN]:
         requires_grad =
            [p \in {named_parameters(node)[i] : i \in 1..Len(named_parameters(node))}
                |-> IF p \in BaseParameters THEN flags[p] ELSE TRUE]
    /\ weight = <<>>
    /\ bias = <<>>
    /\ slots = <<>>
    /\ wrapped = FALSE
    /\ origin = <<>>
    /\ premerge = <<>>
    /\ out = Idle
    /\ replaced = 0
    /\ loc = Idle

\* mark_trainable_callback(model)
MarkTrainable ==
    /\ out.op = "none"
    /\ \E res \in {mark_lora_as_trainable(requires_grad, node, sd.adapter_name, sd.bias)}:
         /\ requires_grad' = res.grad
         /\ out' = [op |-> "mark_trainable", st |-> res.st, before |-> requires_grad]
    /\ UNCHANGED <<node, weight, bias, slots, wrapped, origin, premerge, loc, sd,
                   replaced>>

NextCallbacks ==
    \/ Filter
    \/ MarkTrainable

SpecCallbacks == InitCallbacks /\ [][NextCallbacks]_vars

\* ================================================================ claims
\* The delta a layer's train() folds into its weight, by the layer's class.
LayerDelta(l, w) ==
    CASE l.variant = "Linear"       -> LinearDelta(l)
      [] l.variant = "Embedding"    -> EmbeddingDelta(l)
      [] l.variant = "MergedLinear" -> MergedLinearDelta(l)
      [] l.variant = "Conv2d"       -> Conv2dDelta(l, w)

\* base + delta, as a tensor (base itself when the delta does not apply).
Plus(base, delta) ==
    IF delta.ok /\ BroadcastsTo(delta.val, Rows(base), Cols(base))
    THEN AddInPlace(base, delta.val, 1).val
    ELSE base

\* C1: a train(True) call on a merged layer (merged by eval() or by
\* train(False), nothing in between) returns and leaves the weight tensor
\* equal to the one the layer had just before that merge.
C1_MergeUnmergeRestores ==
    (out.op = "train" /\ out.mode /\ out.wasMerged)
        => /\ out.st = "ok"
           /\ ~slots[out.slot].merged
           /\ weight = premerge

\* A layer of rank > 0 was merged, its weight changed by the merge, and
\* train(True) has just unmerged it.
C1_Witness ==
    /\ out.op = "train" /\ out.mode /\ out.wasMerged
    /\ slots[1].r > 0 /\ slots[1].merge_weights
    /\ out.before # weight
    /\ weight = premerge

C3_WeightMatchesMergedFlag ==
    \A i \in 1..Len(slots):
        IF slots[i].merged
        THEN /\ LayerDelta(slots[i], origin).ok
             /\ weight = Plus(origin, LayerDelta(slots[i], origin))
        ELSE weight = origin

\* A merged layer whose weight differs from the original weight.
C3_Witness ==
    /\ slots[1].merged
    /\ weight # origin

\* C7: a zero-rank layer is a pass-through: every train(), eval(),
\* activation toggle and forward call on it returns, the weight stays the
\* original weight, and forward gives what the plain layer gives.
C7_ZeroRankPassThrough ==
    (slots[1].r = 0 /\ out.op # "none")
        => /\ out.st = "ok"
           /\ weight = origin
           /\ out.op = "forward"
                => out.y = PlainForward(node.kind, T(slots[1], origin), bias, out.x).y
\* The first activated adapter in attachment order, 0 when none is activated.
RECURSIVE FirstActivated(_, _)
FirstActivated(ls, i) ==
    IF i > Len(ls) THEN 0
    ELSE IF ls[i].activated THEN i
    ELSE FirstActivated(ls, i + 1)

\* C4: every forward call on a patched node is routed to the first activated
\* adapter in attachment order, and to the node's original forward when no
\* attached adapter is activated.
C4_RoutedToFirstActivated ==
    (out.op = "node_forward" /\ wrapped)
        => out.route = FirstActivated(slots, 1)

\* C5: when the adapters of a patched node are deactivated and not merged,
\* a forward call on the node returns what the unwrapped base layer returns
\* on the same input.
C5_DeactivatedUnmergedIsBase ==
    ( /\ out.op = "node_forward" /\ wrapped
      /\ \A i \in 1..Len(slots): ~slots[i].activated /\ ~slots[i].merged )
        => /\ out.st = "ok"
           /\ out.y = PlainForward(node.kind, origin, bias, out.x).y

\* C6: in every state in which the adapters of a patched node are
\* deactivated, merged or not, a forward call on the node returns what the
\* base layer with its original, unfolded weight returns.
C6_DeactivatedIsOriginalBase ==
    ( /\ out.op = "node_forward" /\ wrapped
      /\ \A i \in 1..Len(slots): ~slots[i].activated )
        => /\ out.st = "ok"
           /\ out.y = PlainForward(node.kind, origin, bias, out.x).y
\* ---------------------------------------------------------------- C8, C9
\* The positions of s that the first n atoms of re can end at, starting at
\* the beginning of s.
RECURSIVE EndsAfter(_, _, _)
EndsAfter(re, n, s) ==
    IF n = 0 THEN {0}
    ELSE IF re[n].star
         THEN { e \in 0..Len(s) :
                  \E b \in EndsAfter(re, n - 1, s):
                      b <= e /\ \A k \in (b + 1)..e: re[n].any \/ re[n].c = s[k] }
    ELSE { b + 1 : b \in { p \in EndsAfter(re, n - 1, s) :
                             p < Len(s) /\ (re[n].any \/ re[n].c = s[p + 1]) } }
\* The whole of s is in the language of re; some prefix of s is.
WholeMatches(re, s) == Len(s) \in EndsAfter(re, Len(re), s)
PartMatches(re, s) == EndsAfter(re, Len(re), s) # {}
\* s = p \o t for some p.
IsSuffix(t, s) == \E n \in 0..Len(s): s = SubSeq(s, 1, n) \o t
\* Membership in a sequence.
InSeq(x, q) == \E i \in 1..Len(q): q[i] = x
\* The text after the last '.' of a path.
LastComponent(path) ==
    LET dots == {i \in 1..Len(path): path[i] = "."}
    IN  IF dots = {} THEN path
        ELSE SubSeq(path, (CHOOSE i \in dots: \A k \in dots: k <= i) + 1, Len(path))
\* The strings of a list selector are single path components.
TokenTargets(selector) ==
    /\ ~selector.isStr
    /\ \A i \in 1..Len(selector.targets):
         selector.targets[i] # <<>> /\ ~InSeq(".", selector.targets[i])

\* C8: the patch selects, in graph order, exactly the nodes whose whole path
\* is matched by the regex of a string selector, or whose path ends with one
\* of the strings of a list selector; when no node is selected the call
\* completes and no adapter is attached.
C8_LocatorSelects ==
    loc.op = "patch"
        => /\ loc.found =
                SelectSeq(loc.keys,
                          LAMBDA k: IF loc.selector.isStr
                                    THEN WholeMatches(loc.selector.re, k)
                                    ELSE \E i \in 1..Len(loc.selector.targets):
                                             IsSuffix(loc.selector.targets[i], k))
           /\ loc.found = <<>> => (loc.st = "ok" /\ loc.attached = <<>>)
\* A regex selects a node and leaves out one of which it matches only a part.
C8_Witness ==
    /\ loc.op = "patch"
    /\ loc.selector.isStr
    /\ loc.found # <<>>
    /\ \E i \in 1..Len(loc.keys):
         /\ PartMatches(loc.selector.re, loc.keys[i])
         /\ ~InSeq(loc.keys[i], loc.found)

\* C9 as stated: with a list selector of single components, a node is
\* selected only if its last path component is one of the selector strings.
C9_ExactToken ==
    (loc.op = "patch" /\ TokenTargets(loc.selector))
        => \A i \in 1..Len(loc.found):
             InSeq(LastComponent(loc.found[i]), loc.selector.targets)
\* C9: with a list selector of single components, a node is selected exactly
\* when its last path component ends with one of the selector strings: a
\* component that extends a selector string to the left is selected, one
\* that only extends it to the right is not.
C9_SuffixOfLastComponent ==
    (loc.op = "patch" /\ TokenTargets(loc.selector))
        => \A i \in 1..Len(loc.keys):
             InSeq(loc.keys[i], loc.found)
                 <=> \E j \in 1..Len(loc.selector.targets):
                         IsSuffix(loc.selector.targets[j], LastComponent(loc.keys[i]))
\* 'l.xq' is selected for 'q' while 'l.ka' is not selected for 'k'.
C9_Witness ==
    /\ loc.op = "patch"
    /\ TokenTargets(loc.selector)
    /\ InSeq(<<"q">>, loc.selector.targets)
    /\ InSeq(<<"k">>, loc.selector.targets)
    /\ InSeq(<<"l", ".", "x", "q">>, loc.found)
    /\ InSeq(<<"l", ".", "k", "a">>, loc.keys)
    /\ ~InSeq(<<"l", ".", "k", "a">>, loc.found)

\* ------------------------------------------------------------------ C10
\* k = p \o m \o q for some p, q.
HasMarker(k, m) == \E a \in 1..(Len(k) + 1): \E b \in (a - 1)..Len(k): SubSeq(k, a, b) = m
NoneKeys ==
    {k \in DOMAIN sd.state_dict:
        /\ HasMarker(k, LoraModulePrefix \o sd.adapter_name)
        /\ HasMarker(k, LoraParamMarker)}
\* The name of the bias next to parameter k: k with its last component
\* replaced by the bias marker.
SiblingBias(k) == SubSeq(k, 1, Len(k) - Len(LastComponent(k))) \o BiasMarker

\* C11 as stated: with policy 'all' the filter returns the 'none' result plus
\* every entry whose name contains the bias marker.
C11_AllReturnsEveryBias ==
    (sd.op = "filter" /\ sd.bias = "all")
        => /\ sd.st = "ok"
           /\ DOMAIN sd.result =
                NoneKeys \cup {k \in DOMAIN sd.state_dict: HasMarker(k, BiasMarker)}
\* C11: with policy 'all' the filter returns the 'none' result plus every
\* entry whose name contains the bias marker and not the slot marker of the
\* given adapter name, each with its tensor; a bias entry under that
\* adapter's own slot is returned only if the 'none' result holds it.
C11_AllReturnsBiasOutsideSlot ==
    (sd.op = "filter" /\ sd.bias = "all")
        => /\ sd.st = "ok"
           /\ DOMAIN sd.result =
                NoneKeys \cup
                {k \in DOMAIN sd.state_dict:
                    /\ HasMarker(k, BiasMarker)
                    /\ ~HasMarker(k, LoraModulePrefix \o sd.adapter_name)}
           /\ \A k \in DOMAIN sd.result: sd.result[k] = sd.state_dict[k]
\* 'n.bias' and 'q.bias' are returned, 'q.loramodule_d.bias' is not.
C11_Witness ==
    /\ sd.op = "filter" /\ sd.bias = "all"
    /\ sd.adapter_name = <<"d">>
    /\ NoneKeys # {}
    /\ \E k \in DOMAIN sd.result: HasMarker(k, BiasMarker)
    /\ \E k \in DOMAIN sd.state_dict \ DOMAIN sd.result:
         HasMarker(k, BiasMarker) /\ HasMarker(k, LoraModulePrefix \o sd.adapter_name)

C13_UnknownPolicyRaises ==
    sd.bias \notin {"none", "all", "lora_only"}
        => /\ sd.op = "filter"
                => (sd.st = "NotImplementedError" /\ sd.result = <<>>)
           /\ out.op = "mark_trainable"
                => (out.st = "NotImplementedError" /\ requires_grad = out.before)
\* Both callbacks were called under an unknown policy on a model that carries
\* adapters and has frozen parameters.
C13_Witness ==
    /\ sd.bias = "other"
    /\ sd.op = "filter"
    /\ out.op = "mark_trainable"
    /\ node.q # <<>>
    /\ \E p \in DOMAIN requires_grad: ~requires_grad[p]

\* C14: mark_lora_as_trainable changes nothing under 'none'; under 'all' it
\* makes trainable every parameter whose name contains the bias marker;
\* under 'lora_only' it makes trainable exactly the biases of the layers that
\* carry the named adapter; it never changes a parameter whose name has no
\* bias marker and never makes a parameter non-trainable.
C14_MarkTrainableByPolicy ==
    (out.op = "mark_trainable" /\ out.st = "ok")
        => /\ sd.bias = "none" => requires_grad = out.before
           /\ sd.bias = "all" =>
                \A p \in DOMAIN requires_grad:
                    requires_grad[p] = (out.before[p] \/ HasMarker(p, BiasMarker))
           /\ sd.bias = "lora_only" =>
                \A p \in DOMAIN requires_grad:
                    requires_grad[p] =
                        (out.before[p]
                         \/ (p = <<"q", ".", "b", "i", "a", "s">> /\ InSeq(sd.adapter_name, node.q)))
           /\ \A p \in DOMAIN requires_grad:
                /\ out.before[p] => requires_grad[p]
                /\ ~HasMarker(p, BiasMarker) => requires_grad[p] = out.before[p]

\* ------------------------------------------------------------------ C15
\* C15: a patch call under an adapter name that the matched node already
\* carries raises an error.
C15_DuplicateNameRaises ==
    (out.op = "patch" /\ out.duplicate /\ node.kind \in {"Linear", "Embedding"})
        => out.st # "ok"

\* ------------------------------------------------------------------ C16
\* C16: after a patch call that attached an adapter of rank r > 0, the weight
\* tensor the node and the adapter share has requires_grad = False.
C16_BaseWeightFrozen ==
    (out.op = "patch" /\ out.attached /\ slots[SlotOf(out.name)].r > 0)
        => ~requires_grad.weight

\* ------------------------------------------------------------------ C17
\* C17: after unpatch on a patched graph, every matched node that carried an
\* adapter is a plain layer again: the call succeeded, no adapter slot is left
\* on the node and the forward wrapper is gone.
C17_UnpatchRestoresPlainLayer ==
    (out.op = "unpatch" /\ out.carried > 0)
        => /\ out.st = "ok"
           /\ slots = <<>>
           /\ ~wrapped

\* ------------------------------------------------------------------ C18
\* What a forward call on the node returns in the current state.
ForwardOf(x, keep) ==
    LET at(route) == IF route = -1 THEN Result("AttributeError", <<>>)
                     ELSE IF route = 0 THEN PlainForward(node.kind, weight, bias, x)
                     ELSE LayerForward(slots[route], weight, bias, x, keep)
    IN  at(IF wrapped THEN Scan(slots, 1) ELSE 0)

\* C18: patch followed immediately by unpatch, with no training in between,
\* completes, and the node's forward then equals the forward of the original
\* base layer on every input.
C18_PatchUnpatchRoundTrip ==
    (out.op = "unpatch" /\ out.after = "patch" /\ out.carried > 0)
        => /\ out.st = "ok"
           /\ \A x \in Inputs(node.inF, node.kind), keep \in NodeKeeps:
                  ForwardOf(x, keep) = PlainForward(node.kind, origin, bias, x)

\* ------------------------------------------------------------------ C19
\* The output channels a grouped adapter must leave alone: those of the
\* groups whose mask entry is false (all of them when it has no factors).
UntouchedChannels(l) == {c \in 1..l.out_features: ~l.hasLora \/ ~LoraInd(l)[c]}

\* The entries of weight tensor w that produce output channel c.
ChannelOf(l, w, c) == IF l.fan_in_fan_out THEN [i \in 1..Rows(w) |-> w[i][c]] ELSE w[c]

\* C19: for a grouped adapter, the channels of the groups whose mask entry is
\* false are never touched: the weight, merged or not, keeps the base layer's
\* entries for them, and a forward call that returns gives the base layer's
\* output on them.
C19_MaskedGroupsUntouched ==
    slots[1].variant = "MergedLinear"
        => \A c \in UntouchedChannels(slots[1]):
              /\ ChannelOf(slots[1], weight, c) = ChannelOf(slots[1], origin, c)
              /\ (out.op = "forward" /\ out.st = "ok")
                    => out.y[1][c] = BaseLinear(slots[1], origin, bias, out.x).val[1][c]

\* An unmerged forward through an adapter with an enabled and a disabled
\* group, whose output differs from the base layer's on an enabled channel.
C19_Witness ==
    /\ slots[1].variant = "MergedLinear"
    /\ out.op = "forward" /\ out.st = "ok"
    /\ ~slots[1].merged /\ slots[1].activated /\ slots[1].hasLora
    /\ UntouchedChannels(slots[1]) # {}
    /\ out.y # BaseLinear(slots[1], origin, bias, out.x).val

\* ------------------------------------------------------------------ C20
\* C20: a patch pass that builds a grouped adapter whose mask length does not
\* divide the node's output width ends with the constructor's assertion
\* error, and the node gets no adapter slot and no wrapper from it.
C20_IndivisibleMaskRejected ==
    (out.op = "patch" /\ out.groups > 0 /\ node.outF % out.groups # 0)
        => /\ out.st = "AssertionError"
           /\ ~out.attached
           /\ \A i \in 1..Len(slots): slots[i].name # out.name
           /\ wrapped = (slots # <<>>)

\* A patch pass over a linear node that ended with the assertion error.
C20_Witness ==
    /\ out.op = "patch" /\ out.st = "AssertionError" /\ ~out.attached
    /\ out.groups > 0 /\ node.outF % out.groups # 0
    /\ \A i \in 1..Len(slots): slots[i].name # out.name

\* ------------------------------------------------------------------ C21
\* C21: a patch pass over a 2D-convolution node built with a scalar kernel
\* size (nn.Conv2d(in, out, 1), the only convolution nodes of the model)
\* attaches a convolution adapter to it.
C21_ScalarKernelConvPatched ==
    (out.op = "patch" /\ node.kind = "Conv2d")
        => /\ out.st = "ok"
           /\ out.attached

\* ------------------------------------------------------------------ C22
\* C22: in a patch pass that ends normally, a target the selector matched
\* whose node kind has no adapter variant is not in the patch record, and a
\* warning naming it has been logged.
C22_UnsupportedSkippedWithWarning ==
    (loc.op = "patch" /\ loc.st = "ok")
        => \A i \in 1..Len(loc.found):
              KindAt(loc.found[i]) = "Other"
                 => /\ ~InSeq(loc.found[i], loc.attached)
                    /\ \E j \in 1..Len(loc.log):
                          /\ loc.log[j].level = "warning"
                          /\ InSeq(loc.found[i], loc.log[j].keys)

\* ------------------------------------------------------------------ C23
\* C23: when a constructor fails during a patch pass, either no node of the
\* pass is left patched or the nodes patched before the failure have been
\* reported.
C23_FailureLeavesNoUnrecordedPatch ==
    (loc.op = "patch" /\ loc.st # "ok")
        => \/ loc.attached = <<>>
           \/ \E j \in 1..Len(loc.log): loc.log[j].keys = loc.attached

\* ------------------------------------------------------------------ C24
\* C24: the adapter of a patched node works on the node's own weight tensor.
\* With one adapter attached, the weight the node's original forward reads is
\* the pre-patch weight while the adapter is unmerged (patching changed no
\* value), and the pre-patch weight plus the adapter's delta once the adapter
\* has merged.
C24_AdapterSharesNodeWeight ==
    (Len(slots) = 1 /\ slots[1].hasLora)
        => weight = IF slots[1].merged
                    THEN Plus(origin, LayerDelta(slots[1], origin))
                    ELSE origin

\* A merge made through the only adapter of a patched node has changed the
\* weight of the node.
C24_Witness ==
    /\ Len(slots) = 1 /\ slots[1].hasLora /\ slots[1].merged
    /\ out.op = "model_train" /\ out.st = "ok"
    /\ weight # origin

\* ------------------------------------------------------------------ C25
\* C25: for an activated adapter with r > 0 and no dropout, a forward call in
\* the merged state returns what the forward call of the unmerged state
\* returned on the same input: the unmerged layer over the weight as it was
\* before the merge.
C25_MergedForwardEqualsUnmerged ==
    (/\ out.op = "forward"
     /\ slots[1].merged /\ slots[1].activated /\ slots[1].r > 0 /\ ~slots[1].dropout)
        => out = [out EXCEPT
                    !.st = LayerForward([slots[1] EXCEPT !.merged = FALSE], premerge,
                                        bias, out.x, [j \in 1..node.inF |-> TRUE]).st,
                    !.y  = LayerForward([slots[1] EXCEPT !.merged = FALSE], premerge,
                                        bias, out.x, [j \in 1..node.inF |-> TRUE]).y]

\* A forward call through a merged adapter whose delta is not zero.
C25_Witness ==
    /\ out.op = "forward" /\ out.st = "ok"
    /\ slots[1].merged /\ slots[1].activated /\ slots[1].r > 0 /\ ~slots[1].dropout
    /\ weight # premerge

\* ------------------------------------------------------------------ C26
\* C26: over any sequence of patch passes with different adapter names, the
\* wrapper is installed by the pass that attaches the node's first adapter
\* and by no other, so it is on the node exactly once when the node has
\* adapters and forward_origin is the pre-patch forward.
C26_WrapperInstalledOnce ==
    /\ wrapped = (slots # <<>>)
    /\ out.op = "patch" => (out.installed = (out.attached /\ Len(slots) = 1))

\* A pass that attached a second adapter to a node already wrapped.
C26_Witness ==
    /\ out.op = "patch" /\ out.attached /\ ~out.installed
    /\ Len(slots) = 2 /\ wrapped

\* ------------------------------------------------------------------ C27
\* What constructing the adapter for the target at a path gives when the
\* target is the only one of its pass.
AloneOutcome(path) == Construct(NodeAt(path), "default", LocatorConfig).st

\* C27: what a patch pass does with a target depends on the target's kind and
\* the configuration only: the pass ends as the first target whose
\* construction fails on its own would end it, whatever was visited before.
C27_OutcomeIndependentOfEarlierTargets ==
    loc.op = "patch"
        => LET failing == {i \in 1..Len(loc.found):
                              AloneOutcome(loc.found[i]) \notin {"ok", "skipped"}}
           IN  loc.st = IF failing = {} THEN "ok"
                        ELSE AloneOutcome(loc.found[CHOOSE i \in failing:
                                                       \A k \in failing: i <= k])

\* ------------------------------------------------------------------ C28
\* C28: the wrapper's scan of a patched node never fails on a module that is
\* not an adapter, whatever the dropout and the activation of the adapters,
\* and with every adapter deactivated the call reaches the original forward.
C28_WrapperScansAdaptersOnly ==
    (out.op = "node_forward" /\ wrapped)
        => /\ out.route # -1
           /\ (\A i \in 1..Len(slots): ~slots[i].activated) => out.route = 0

\* ------------------------------------------------------------------ C29
\* What a forward call on the node returns in training mode, with nothing
\* merged: the first activated adapter, unmerged, over the pre-patch weight,
\* or the original forward when none is activated.
TrainingModeForward(x) ==
    LET at(route) ==
            IF route = 0 THEN PlainForward(node.kind, origin, bias, x)
            ELSE LayerForward([slots[route] EXCEPT !.merged = FALSE, !.training = TRUE],
                              origin, bias, x, [j \in 1..node.inF |-> TRUE])
    IN  at(Scan(slots, 1))

\* C29: on a node with two adapters that have merge_weights = True, r > 0 and
\* no dropout, a forward call in evaluation mode returns what the call
\* returns in training mode under the same activation assignment.
C29_EvalForwardEqualsTrainForward ==
    (/\ out.op = "node_forward" /\ out.st = "ok"
     /\ Len(slots) = 2
     /\ \A i \in 1..2: /\ slots[i].merge_weights /\ slots[i].hasLora
                        /\ ~slots[i].dropout /\ ~slots[i].training)
        => out.y = TrainingModeForward(out.x).y

\* ------------------------------------------------------------------ C30
\* The adapters a parameter name belongs to: those whose slot is a whole
\* component of the name.
OwnersOf(k) ==
    {n \in FilterAdapterNames: HasMarker(k, <<".">> \o LoraModulePrefix \o n \o <<".">>)}

\* The name ends with a low-rank factor's name.
IsLowRankFactor(k) ==
    \/ IsSuffix(<<".">> \o LoraParamMarker \o <<"A">>, k)
    \/ IsSuffix(<<".">> \o LoraParamMarker \o <<"B">>, k)

\* C30: under every bias policy, the filter called for an adapter name returns
\* no low-rank factor that belongs to an adapter of another name.
C30_NoFactorOfAnotherAdapter ==
    (sd.op = "filter" /\ sd.st = "ok")
        => \A k \in DOMAIN sd.result:
              IsLowRankFactor(k) => sd.adapter_name \in OwnersOf(k)
====
